---- MODULE Spec2Model ----
(***************************************************************************)
(* The cocoon-compiler worker: the service-lifecycle framework             *)
(* (CocoonService), the Builder service (class Compiler) with its build    *)
(* child, the Updater's readiness gate and the Admin API's status read.    *)
(***************************************************************************)
EXTENDS Naturals, Integers, Sequences, FiniteSets, TLC

\* ------------------------------------------------------------------ bounds
\* Builder iterations started during one run of the Builder process.
MaxIters == 2
\* Clock ticks the model takes to let the watchdog interval elapse.
WatchdogTicks == 1
\* Distinct LastModified stamps a remote object goes through.
MaxStamp == 2
\* Successful POSTs of one notification that are told apart.
MaxPosts == 2

\* ------------------------------------------------------- program constants
COMPILER_WATCHDOG_INTERVAL == 2700000

COMPILER == "cocoon-compiler"
UPDATER == "cocoon-updater"
Services == {COMPILER, UPDATER}

\* Milliseconds one clock tick of the model stands for.
TickMs == COMPILER_WATCHDOG_INTERVAL \div WatchdogTicks

\* The jobs the backend may hand out (code, first platform of platforms[]).
Jobs == { [code |-> "A1", platform |-> "android"],
          [code |-> "B2", platform |-> "ubuntu"] }


VARIABLES
    _options,        \* [service -> [service: BOOLEAN]]: daemon or one-shot
    proc,            \* [service -> "created" | "starting" | "running" | "exited"]
    exitCode,        \* [service -> "none" | "0" | "-1" | "crash"]
    _working,        \* [service -> BOOLEAN]: CocoonService._working
    lockFile,        \* [service -> BOOLEAN]: {id}.lock exists in the workspace root
    _loopIntervalId, \* [service -> BOOLEAN]: the loop interval is armed
    _stopIntervalId, \* [service -> BOOLEAN]: the stop re-check interval is armed
    workspaceDir,    \* the workspace root directory exists
    ready,           \* data/ready.lock exists
    _queue,          \* the Builder's queue handle: "connecting" | "connected" | "failed"
    iters,           \* the Builder's iterations, in the order loop() started them
    _watchdogTimer,  \* 0 (null) or the iteration whose build armed the live interval
    queue,           \* the notifications stored in the durable queue, in order
    uStage,          \* the Updater's waterfall: "idle" | "dataFolder" | "sync"
    response,        \* the Admin API's last serviceStatus response
    remote,          \* the S3 bucket: [key index -> 0 (no object) | LastModified]
    s3_structure,    \* s3_structure.json: [exists, parses, items]
    dirs,            \* [cache output directory -> "absent" | "empty" | "full"]
    uData,           \* data.Contents of the Updater iteration in progress
    uStep,           \* where that iteration is: "list" | "download" | "extract" | "save"
    uIdx,            \* the item of uData being downloaded or extracted
    uHist,           \* what the iteration has done so far, and what it started from
    env,             \* the environment of the host: "develop" | "production"
    notifications,   \* the queue's documents: [message -> [state, tries]]
    projects,        \* [message -> BOOLEAN]: projects/{code}_{starttime} exists
    nWorking,        \* the Notifier's _working flag
    nStep,           \* the pending callback: "idle" | "get" | "post" | "ack" | "discard"
    nMsg,            \* the message the Notifier's iteration holds, or 0
    nHist,           \* per message: what has been done with it so far
    launcher,        \* the build child of one job: builder_launcher, its Builder
    requests         \* [service -> the registration requests it has issued]

\* The state of the services, of the Builder and of the Admin API.
coreVars == <<_options, proc, exitCode, _working, lockFile, _loopIntervalId,
              _stopIntervalId, workspaceDir, ready, _queue, iters,
              _watchdogTimer, queue, uStage, response>>

\* The bucket, the cache and the Updater's position in its sync.
syncVars == <<remote, s3_structure, dirs, uData, uStep, uIdx, uHist>>

\* The notifications queue, the job workspaces and the Notifier's iteration.
notifyVars == <<env, notifications, projects, nWorking, nStep, nMsg, nHist>>

\* Everything but the services, the Builder and the Admin API.
restVars == <<syncVars, notifyVars, launcher, requests>>

vars == <<_options, proc, exitCode, _working, lockFile, _loopIntervalId,
          _stopIntervalId, workspaceDir, ready, _queue, iters, _watchdogTimer,
          queue, uStage, response, remote, s3_structure, dirs, uData, uStep,
          uIdx, uHist, env, notifications, projects, nWorking, nStep, nMsg,
          nHist, launcher, requests>>

NoResponse == [name |-> "none", working |-> FALSE]

\* A fresh iteration record, as loop() starts the waterfall.
NewIter ==
    [ stage |-> "init",       \* "init" | "fetch" | "build" | "done" | "dead"
      code |-> "none", platform |-> "none", starttime |-> 0,
      child |-> "none",       \* "none" | "running" | "exited"
      msg |-> "none",         \* the IPC message the child sent: "null" | "error"
      exit |-> "none",        \* how the child ended: "0" | "1" | "SIGKILL"
      evMsg |-> FALSE, evExit |-> FALSE, evErr |-> FALSE, \* events not yet handled
      cbCalled |-> FALSE,     \* build()'s once-latch
      cbCount |-> 0,          \* how often build()'s cb was invoked
      err |-> "none",         \* the error passed to cb
      first |-> "none",       \* the event whose handler invoked cb
      stream |-> "none",      \* stdout.log write stream: "open" | "closed" | "error"
      notif |-> "none",       \* "pending" | "added" | "failed" | "threw" | "skipped"
      age |-> 0 ]             \* clock ticks since the child was forked

\* The tracked folders of the bucket, and the platform of this host.
Tracked == {"platforms", "compilers", "plugins", "libs", "sdks"}

osType == "linux"

\* The objects the bucket may hold, in the order listObjects returns them:
\* docs/readme.txt, plugins/X.tar.bz2, plugins/Y.tar.bz2 and
\* sdks/android-darwin.tar.bz2.
KeyOrder ==
    << [dirName |-> "docs",    name |-> "readme",  os |-> "none"],
       [dirName |-> "plugins", name |-> "X",       os |-> "none"],
       [dirName |-> "plugins", name |-> "Y",       os |-> "none"],
       [dirName |-> "sdks",    name |-> "android", os |-> "darwin"] >>

NKeys == Len(KeyOrder)

\* The stamps object i goes through; only plugins/X is ever re-uploaded.
Stamps(i) == IF i = 2 THEN 0..MaxStamp ELSE 0..1

\* getOutputDir returns null for a key outside the tracked folders.
null == [folder |-> "null", name |-> "null"]

\* Updater.getOutputDir: {data}/{folder}/{name cut out of the file name}.
getOutputDir(k) ==
    IF k.dirName \in Tracked THEN [folder |-> k.dirName, name |-> k.name]
                              ELSE null

OutDirs == {getOutputDir(KeyOrder[i]) : i \in 1..NKeys} \ {null}

\* No s3_structure.json, an empty cache.
NoStructure == [exists |-> FALSE, parses |-> FALSE, items |-> << >>]

\* s3_structure.json cut short by a write that failed after the file was
\* opened: JSON.parse throws on it.
Truncated == [exists |-> TRUE, parses |-> FALSE, items |-> << >>]

\* The record of an Updater iteration, for the statements about it: whether
\* the last one ended without error, whether the bucket was as the last one
\* listed it, the downloads and removals of this one, the manifest it found
\* and the bucket it listed, and the listed object (its place in KeyOrder)
\* whose download or extraction ended the last one.
NoHist == [lastOk |-> FALSE, same |-> FALSE, downloads |-> 0, deletions |-> 0,
           prev |-> NoStructure, listed |-> [i \in 1..NKeys |-> 0],
           failed |-> 0]

\* Date.prototype.toISOString, which is also what JSON.stringify writes for a
\* Date; JSON.parse gives the string back.
toISOString(t) == <<"ISO", t>>

\* JSON.stringify(data.Contents) as JSON.parse reads it back.
stringify(data) ==
    [i \in 1..Len(data) |->
        [Key |-> data[i].Key, LastModified |-> toISOString(data[i].LastModified)]]

\* A host whose Updater has synced plugins/X once.
Synced ==
    /\ remote = [i \in 1..NKeys |-> IF i = 2 THEN 1 ELSE 0]
    /\ s3_structure = [exists |-> TRUE, parses |-> TRUE,
                       items |-> stringify(<<[Key |-> KeyOrder[2],
                                             LastModified |-> 1]>>)]
    /\ dirs = [d \in OutDirs |-> IF d = getOutputDir(KeyOrder[2]) THEN "full"
                                                                 ELSE "absent"]

\* A host that has never synced, facing the bucket `r`.
Fresh(r) ==
    /\ remote = r
    /\ s3_structure = NoStructure
    /\ dirs = [d \in OutDirs |-> "absent"]

SyncIdle ==
    /\ uData = << >>
    /\ uStep = "list"
    /\ uIdx = 0
    /\ uHist = NoHist

CoreInit ==
    /\ _options \in [Services -> {[service |-> TRUE], [service |-> FALSE]}]
    /\ _options[UPDATER].service
    /\ proc = [s \in Services |-> "created"]
    /\ exitCode = [s \in Services |-> "none"]
    /\ _working = [s \in Services |-> FALSE]
    /\ lockFile = [s \in Services |-> FALSE]
    /\ _loopIntervalId = [s \in Services |-> FALSE]
    /\ _stopIntervalId = [s \in Services |-> FALSE]
    /\ workspaceDir \in BOOLEAN
    /\ ready \in BOOLEAN
    /\ ready => workspaceDir
    /\ _queue = "connecting"
    /\ iters = << >>
    /\ _watchdogTimer = 0
    /\ queue = << >>
    /\ uStage = "idle"
    /\ response = NoResponse

\* ------------------------------------------------- Notifier: vocabulary

MAX_RETRIES_NUMBER == 20

\* The notifications the Builder queues: one of a job, one without a code.
Payload ==
    << [code |-> "A1", platform |-> "android", starttime |-> 1],
       [code |-> "", platform |-> "ubuntu", starttime |-> 2] >>

NMsgs == Len(Payload)

\* CocoonEnvironment, testing behaving as production in the Notifier.
Envs == {"develop", "production"}

\* A document of the queue: "none" (not added), "visible", "inflight"
\* (delivered, invisible until the visibility window ends), "deleted" (acked)
\* or "removed" (deleted and cleaned); tries counts its deliveries, and every
\* count above MAX_RETRIES_NUMBER is kept as MAX_RETRIES_NUMBER + 1.
NoMessage == [state |-> "none", tries |-> 0]

NoRecord == [posts |-> 0, discards |-> 0, acks |-> 0, removals |-> 0,
             ackFailed |-> FALSE, sent |-> 0]

\* No notification queued, no workspace, the Notifier between iterations.
NotifyIdle ==
    /\ notifications = [i \in 1..NMsgs |-> NoMessage]
    /\ projects = [i \in 1..NMsgs |-> FALSE]
    /\ nWorking = FALSE
    /\ nStep = "idle"
    /\ nMsg = 0
    /\ nHist = [i \in 1..NMsgs |-> NoRecord]

\* No build child is followed.
NotForked == [pc |-> "none"]

\* No service has called the backend's registration API.
NoRequests == [s \in Services |-> {}]

Init ==
    /\ CoreInit
    /\ IF ready THEN Synced ELSE Fresh([i \in 1..NKeys |-> 0])
    /\ SyncIdle
    /\ env = "production"
    /\ NotifyIdle
    /\ launcher = NotForked
    /\ requests = NoRequests

\* ------------------------------------------------- CocoonService (framework)

\* process.exit(code): the process is gone and the loop interval with it;
\* _stopIntervalId keeps what stop() stored in it (no code ever clears it).
exit(s, code) ==
    /\ proc' = [proc EXCEPT ![s] = "exited"]
    /\ exitCode' = [exitCode EXCEPT ![s] = code]
    /\ _loopIntervalId' = [_loopIntervalId EXCEPT ![s] = FALSE]
    /\ _stopIntervalId' = _stopIntervalId

\* The lockfile after working(b): openSync(lock, "w") fails (caught, logged) when
\* the workspace root does not exist; unlinkSync leaves no file either way.
lockAfter(s, b) ==
    IF b THEN (IF workspaceDir THEN TRUE ELSE lockFile[s]) ELSE FALSE

\* CocoonService.working(b): flips the flag, then creates / removes {id}.lock.
working(s, b) ==
    /\ _working' = [_working EXCEPT ![s] = b]
    /\ lockFile' = [lockFile EXCEPT ![s] = lockAfter(s, b)]

\* CocoonService.isProcessWorking(id): existsSync of {id}.lock.
isProcessWorking(id) == lockFile[id]

\* A stop() that never waits, and one that always does.
stopAtOnce(s) == FALSE

stopForever(s) == TRUE

\* stop() looks at the flag before anything else.
stopMustWait(s) == _working[s]

\* CocoonService.stop(); `alive` is the state the process is left in when
\* stop() returns without terminating it.
stop(s, alive) ==
    IF stopMustWait(s)
    THEN /\ _loopIntervalId' = [_loopIntervalId EXCEPT ![s] = FALSE]
         /\ _stopIntervalId' = [_stopIntervalId EXCEPT ![s] = TRUE]
         /\ proc' = [proc EXCEPT ![s] = alive]
         /\ UNCHANGED <<exitCode, _working, lockFile>>
    ELSE /\ working(s, FALSE)
         /\ exit(s, "0")

\* An exception that ends the process in either mode.
crashOnException(s) ==
    /\ exit(s, "crash")
    /\ UNCHANGED <<_working, lockFile>>

\* The process-wide uncaughtException handler, installed in daemon mode only;
\* without it the exception ends the process.
uncaughtException(s) ==
    IF _options[s].service
    THEN /\ working(s, FALSE)
         /\ UNCHANGED <<proc, exitCode, _loopIntervalId, _stopIntervalId>>
    ELSE /\ exit(s, "crash")
         /\ UNCHANGED <<_working, lockFile>>

\* ------------------------------------------------------------ loop() bodies

\* A gate that is always open.
gateOpen == TRUE

\* The Builder's gate: existsSync(data/ready.lock).
readyLockPresent == ready

\* A loop() that does not look at the working flag.
reentrantLoop ==
    IF ~ready
    THEN UNCHANGED <<_working, lockFile, iters>>
    ELSE /\ working(COMPILER, TRUE)
         /\ iters' = Append(iters, NewIter)

\* Compiler.loop() up to the start of the waterfall.
compilerLoop ==
    IF ~readyLockPresent \/ _working[COMPILER]
    THEN UNCHANGED <<_working, lockFile, iters>>
    ELSE /\ working(COMPILER, TRUE)
         /\ iters' = Append(iters, NewIter)

\* Updater.loop() up to dataFolder (init calls back at once).
updaterLoop ==
    IF _working[UPDATER]
    THEN UNCHANGED <<_working, lockFile, uStage>>
    ELSE /\ working(UPDATER, TRUE)
         /\ uStage' = "dataFolder"

\* The Builder's polls are followed until MaxIters iterations have started.
loopInBounds(s) == s = COMPILER /\ readyLockPresent => Len(iters) < MaxIters

\* ------------------------------------------------------ lifecycle actions

\* start(): onStart() and the IP lookup begin. The Updater's onStart() runs
\* loop() at once; the Builder's begins connecting to the queue.
Start(s) ==
    /\ proc[s] = "created"
    /\ proc' = [proc EXCEPT ![s] = "starting"]
    /\ IF s = UPDATER
       THEN updaterLoop
       ELSE UNCHANGED <<_working, lockFile, uStage>>
    /\ UNCHANGED <<_options, exitCode, _loopIntervalId, _stopIntervalId,
                   workspaceDir, ready, _queue, iters, _watchdogTimer, queue,
                   response>>

\* The getNetworkIP callback of start(), failing: stop().
NetworkIPError(s) ==
    /\ proc[s] = "starting"
    /\ stop(s, "running")
    /\ UNCHANGED <<_options, workspaceDir, ready, _queue, iters,
                   _watchdogTimer, queue, uStage, response>>

\* The getNetworkIP callback of start(), succeeding in daemon mode: register
\* and arm the loop interval.
NetworkIPService(s) ==
    /\ proc[s] = "starting"
    /\ _options[s].service
    /\ proc' = [proc EXCEPT ![s] = "running"]
    /\ _loopIntervalId' = [_loopIntervalId EXCEPT ![s] = TRUE]
    /\ UNCHANGED <<_options, exitCode, _working, lockFile, _stopIntervalId,
                   workspaceDir, ready, _queue, iters, _watchdogTimer, queue,
                   uStage, response>>

\* The getNetworkIP callback of start(), succeeding in one-shot mode: loop().
NetworkIPConsole(s) ==
    /\ proc[s] = "starting"
    /\ ~_options[s].service
    /\ s = COMPILER
    /\ loopInBounds(s)
    /\ proc' = [proc EXCEPT ![s] = "running"]
    /\ compilerLoop
    /\ UNCHANGED <<_options, exitCode, _loopIntervalId, _stopIntervalId,
                   workspaceDir, ready, _queue, _watchdogTimer, queue, uStage,
                   response>>

\* One firing of the loop interval: loop().
LoopTick(s) ==
    /\ proc[s] = "running"
    /\ _loopIntervalId[s]
    /\ loopInBounds(s)
    /\ IF s = COMPILER
       THEN compilerLoop /\ UNCHANGED uStage
       ELSE updaterLoop /\ UNCHANGED iters
    /\ UNCHANGED <<_options, proc, exitCode, _loopIntervalId, _stopIntervalId,
                   workspaceDir, ready, _queue, _watchdogTimer, queue,
                   response>>

\* SIGTERM or SIGINT (handlers installed in daemon mode): stop().
Signal(s) ==
    /\ proc[s] \in {"created", "starting", "running"}
    /\ _options[s].service
    /\ stop(s, proc[s])
    /\ UNCHANGED <<_options, workspaceDir, ready, _queue, iters,
                   _watchdogTimer, queue, uStage, response>>

\* One firing of the stop interval armed by a stop() that found the service
\* working: stop() again.
StopTick(s) ==
    /\ proc[s] # "exited"
    /\ _stopIntervalId[s]
    /\ stop(s, proc[s])
    /\ UNCHANGED <<_options, workspaceDir, ready, _queue, iters,
                   _watchdogTimer, queue, uStage, response>>

\* ---------------------------------------------------- Builder: the pipeline

\* An iteration is settled when nothing of it is left in the process: the
\* waterfall has ended, the child is gone and reaped, no event of it and no
\* queue callback is outstanding. What remains of it is the job it ran, the
\* error it resolved with, how its notification ended, whether its log stream
\* failed and whether its child was killed.
settled(it) ==
    /\ it.stage \in {"done", "dead"}
    /\ it.child # "running"
    /\ ~it.evMsg /\ ~it.evExit /\ ~it.evErr
    /\ it.notif # "pending"

settle(it) ==
    IF settled(it)
    THEN [NewIter EXCEPT !.stage = it.stage, !.code = it.code,
                         !.platform = it.platform, !.starttime = it.starttime,
                         !.cbCalled = it.cbCalled, !.cbCount = it.cbCount,
                         !.notif = it.notif, !.err = it.err,
                         !.stream = IF it.stream = "error" THEN "error"
                                                           ELSE "none",
                         !.exit = IF it.exit = "SIGKILL" THEN "SIGKILL"
                                                         ELSE "none"]
    ELSE it

tidy(its) == [i \in 1..Len(its) |-> settle(its[i])]


Alive == proc[COMPILER] \in {"starting", "running"}

\* The internal and the public message of the error a build resolved with.
msgInternal(err) ==
    CASE err = "watchdog" -> "Compilation took too long, killing..."
      [] err = "abnormal" -> "Process exited abnormally"
      [] err = "spawn"    -> "spawn error"
      [] err = "ipc"      -> "child error"
      [] OTHER            -> "undefined"

msgPublic(err) ==
    CASE err = "watchdog" -> "The compilation exceed the designated time."
      [] err = "ipc"      -> "CORDOVA LOG"
      [] OTHER            -> "undefined"

\* The INotificationData the waterfall callback builds from (err, data).
notification(it) ==
    [ code |-> it.code, platform |-> it.platform, starttime |-> it.starttime,
      msg_internal |-> msgInternal(it.err), msg_public |-> msgPublic(it.err) ]

\* new Date().getTime() in fetch: later than every timestamp handed out before.
getTime == 1 + Cardinality({j \in 1..Len(iters) : iters[j].starttime > 0})

\* A callback that notifies in either mode.
notifyAlways(hasData) == IF hasData THEN "pending" ELSE "none"

\* What the waterfall callback does with the data of a finished pipeline.
notifyOutcome(hasData) ==
    IF hasData
    THEN (IF _options[COMPILER].service THEN "pending" ELSE "skipped")
    ELSE "none"

\* The callback of async.waterfall in Compiler.loop(), on iteration i whose
\* record has become `it`. notify() dereferences this._queue, which is undefined
\* until the queue connection is up: the TypeError leaves the callback before
\* working(false); `caught` tells whether a try/catch of the caller absorbs it.
waterfallCallback(i, it, err, hasData, caught) ==
    IF hasData /\ _options[COMPILER].service /\ _queue # "connected"
    THEN /\ iters' = tidy([iters EXCEPT ![i] = [it EXCEPT !.stage = "done",
                                                          !.notif = "threw"]])
         /\ IF caught
            THEN UNCHANGED <<_working, lockFile, proc, exitCode,
                             _loopIntervalId, _stopIntervalId>>
            ELSE uncaughtException(COMPILER)
    ELSE /\ iters' = tidy([iters EXCEPT ![i] = [it EXCEPT !.stage = "done",
                                                !.notif = notifyOutcome(hasData)]])
         /\ working(COMPILER, FALSE)
         /\ IF _options[COMPILER].service
            THEN UNCHANGED <<proc, exitCode, _loopIntervalId, _stopIntervalId>>
            ELSE exit(COMPILER, IF err = "none" THEN "0" ELSE "-1")

\* A latch that never closes.
latchStuck(it) == TRUE

\* The once-latch of build(): cb has not been called yet.
latchOpen(it) == ~it.cbCalled

\* stdout.close(): a stream that failed stays failed.
closed(it) == IF it.stream = "error" THEN "error" ELSE "closed"

\* finishBuild(error, data) of build(): closes the log stream, clears whatever
\* interval this._watchdogTimer holds, and calls cb unless the latch is set.
finishBuild(i, it, err, ev, caught) ==
    /\ _watchdogTimer' = 0
    /\ IF latchOpen(it)
       THEN waterfallCallback(i, [it EXCEPT !.stream = closed(it),
                                            !.cbCalled = TRUE,
                                            !.cbCount = @ + 1,
                                            !.err = err,
                                            !.first = ev],
                              err, TRUE, caught)
       ELSE /\ iters' = tidy([iters EXCEPT ![i] = [it EXCEPT !.stream = closed(it)]])
            /\ UNCHANGED <<_working, lockFile, proc, exitCode,
                           _loopIntervalId, _stopIntervalId>>

\* init: the callback of fse.ensureDir(projects/).
InitDone(i, ok) ==
    /\ Alive
    /\ i \in 1..Len(iters)
    /\ iters[i].stage = "init"
    /\ IF ok
       THEN /\ iters' = [iters EXCEPT ![i].stage = "fetch"]
            /\ workspaceDir' = TRUE
            /\ UNCHANGED <<_working, lockFile, proc, exitCode,
                           _loopIntervalId, _stopIntervalId>>
       ELSE /\ waterfallCallback(i, [iters[i] EXCEPT !.err = "init"], "init",
                                 FALSE, FALSE)
            /\ UNCHANGED workspaceDir
    /\ UNCHANGED <<_options, ready, _queue, _watchdogTimer, queue, uStage,
                   response>>

\* fetch ending without a job: a request error or an error response of the
\* backend (daemon mode), or a config.json lacking a required field.
FetchFail(i, why) ==
    /\ Alive
    /\ i \in 1..Len(iters)
    /\ iters[i].stage = "fetch"
    /\ why \in {"request", "malformed"}
    /\ why = "request" => _options[COMPILER].service
    /\ waterfallCallback(i, [iters[i] EXCEPT !.err = why], why, FALSE, FALSE)
    /\ UNCHANGED <<_options, workspaceDir, ready, _queue, _watchdogTimer,
                   queue, uStage, response>>

\* fetch: JSON.parse of a body that is no JSON throws inside the request
\* callback; cb is never called for this iteration.
FetchThrow(i) ==
    /\ Alive
    /\ i \in 1..Len(iters)
    /\ iters[i].stage = "fetch"
    /\ iters' = tidy([iters EXCEPT ![i].stage = "dead"])
    /\ uncaughtException(COMPILER)
    /\ UNCHANGED <<_options, workspaceDir, ready, _queue, _watchdogTimer,
                   queue, uStage, response>>

\* fetch handing a job to build(): the child is forked (or the fork fails and
\* an "error" event is on its way), the log stream is opened, and the watchdog
\* interval replaces the one this._watchdogTimer held.
FetchJob(i, job, forked) ==
    /\ Alive
    /\ i \in 1..Len(iters)
    /\ iters[i].stage = "fetch"
    /\ iters' = [iters EXCEPT ![i] =
                    [@ EXCEPT !.stage = "build",
                              !.code = job.code,
                              !.platform = job.platform,
                              !.starttime = getTime,
                              !.child = IF forked THEN "running" ELSE "none",
                              !.evErr = ~forked,
                              !.stream = "open"]]
    /\ _watchdogTimer' = i
    /\ UNCHANGED <<_options, proc, exitCode, _working, lockFile,
                   _loopIntervalId, _stopIntervalId, workspaceDir, ready,
                   _queue, queue, uStage, response>>

\* ------------------------------------------------ the build child (launcher)

\* builder.start's callback in the launcher: process.send(err) after a failed
\* stage, process.send(null) after the last one.
ChildSend(i, m) ==
    /\ Alive
    /\ i \in 1..Len(iters)
    /\ iters[i].child = "running"
    /\ iters[i].msg = "none"
    /\ m \in {"null", "error"}
    /\ iters' = [iters EXCEPT ![i].msg = m, ![i].evMsg = TRUE]
    /\ UNCHANGED <<_options, proc, exitCode, _working, lockFile,
                   _loopIntervalId, _stopIntervalId, workspaceDir, ready,
                   _queue, _watchdogTimer, queue, uStage, response>>

\* The statement after process.send in the launcher: process.exit(0).
ChildExit(i) ==
    /\ Alive
    /\ i \in 1..Len(iters)
    /\ iters[i].child = "running"
    /\ iters[i].msg # "none"
    /\ iters' = tidy([iters EXCEPT ![i].child = "exited", ![i].exit = "0",
                                   ![i].evExit = TRUE])
    /\ UNCHANGED <<_options, proc, exitCode, _working, lockFile,
                   _loopIntervalId, _stopIntervalId, workspaceDir, ready,
                   _queue, _watchdogTimer, queue, uStage, response>>

\* The child dies without sending anything (non-zero code).
ChildCrash(i) ==
    /\ Alive
    /\ i \in 1..Len(iters)
    /\ iters[i].child = "running"
    /\ iters[i].msg = "none"
    /\ iters' = [iters EXCEPT ![i].child = "exited", ![i].exit = "1",
                              ![i].evExit = TRUE]
    /\ UNCHANGED <<_options, proc, exitCode, _working, lockFile,
                   _loopIntervalId, _stopIntervalId, workspaceDir, ready,
                   _queue, _watchdogTimer, queue, uStage, response>>

\* --------------------------------------- Builder: the handlers of build()

\* builder.on("message").
OnMessage(i) ==
    /\ Alive
    /\ i \in 1..Len(iters)
    /\ iters[i].evMsg
    /\ finishBuild(i, [iters[i] EXCEPT !.evMsg = FALSE],
                   IF iters[i].msg = "error" THEN "ipc" ELSE "none",
                   "message", FALSE)
    /\ UNCHANGED <<_options, workspaceDir, ready, _queue, queue, uStage,
                   response>>

\* builder.on("exit"): a non-zero code or a signal resolves the build with
\* "Process exited abnormally"; code 0 calls finishBuild inside a try/catch.
OnExit(i) ==
    /\ Alive
    /\ i \in 1..Len(iters)
    /\ iters[i].evExit
    /\ IF iters[i].exit # "0"
       THEN finishBuild(i, [iters[i] EXCEPT !.evExit = FALSE], "abnormal",
                        "exit", FALSE)
       ELSE finishBuild(i, [iters[i] EXCEPT !.evExit = FALSE], "none",
                        "exit", TRUE)
    /\ UNCHANGED <<_options, workspaceDir, ready, _queue, queue, uStage,
                   response>>

\* builder.on("error"): the fork failed.
OnError(i) ==
    /\ Alive
    /\ i \in 1..Len(iters)
    /\ iters[i].evErr
    /\ finishBuild(i, [iters[i] EXCEPT !.evErr = FALSE], "spawn", "error",
                   FALSE)
    /\ UNCHANGED <<_options, workspaceDir, ready, _queue, queue, uStage,
                   response>>

\* The interval armed by build() is due once COMPILER_WATCHDOG_INTERVAL ms
\* have passed since it was set.
watchdogDue(i) == iters[i].age * TickMs >= COMPILER_WATCHDOG_INTERVAL

\* A kill that does nothing.
spare(it) == it

\* builder.kill("SIGKILL"): ends a child that is still a process.
kill(it) ==
    IF it.child = "running"
    THEN [it EXCEPT !.child = "exited", !.exit = "SIGKILL", !.evExit = TRUE]
    ELSE it

\* The watchdog interval fires: kill the child of the build that armed it and
\* resolve that build with the fixed BuilderError.
WatchdogFire(i) ==
    /\ Alive
    /\ i \in 1..Len(iters)
    /\ _watchdogTimer = i
    /\ watchdogDue(i)
    /\ finishBuild(i, kill(iters[i]), "watchdog", "watchdog", FALSE)
    /\ UNCHANGED <<_options, workspaceDir, ready, _queue, queue, uStage,
                   response>>

\* The stdout.log write stream emits "error" (a failed write) while the child
\* is producing output; build() attaches no listener, so the error is thrown
\* as an uncaught exception.
StreamError(i) ==
    /\ Alive
    /\ i \in 1..Len(iters)
    /\ iters[i].stream = "open"
    /\ iters[i].child = "running"
    /\ iters' = [iters EXCEPT ![i].stream = "error"]
    /\ uncaughtException(COMPILER)
    /\ UNCHANGED <<_options, workspaceDir, ready, _queue, _watchdogTimer,
                   queue, uStage, response>>

\* The callback of this._queue.add in notify(): the notification is stored, or
\* the add failed and the error is logged.
NotifyDone(i, stored) ==
    /\ Alive
    /\ i \in 1..Len(iters)
    /\ iters[i].notif = "pending"
    /\ iters' = tidy([iters EXCEPT ![i].notif = IF stored THEN "added"
                                                         ELSE "failed"])
    /\ queue' = IF stored THEN Append(queue, notification(iters[i])) ELSE queue
    /\ UNCHANGED <<_options, proc, exitCode, _working, lockFile,
                   _loopIntervalId, _stopIntervalId, workspaceDir, ready,
                   _queue, _watchdogTimer, uStage, response>>

\* Time passes for the builds in progress; it cannot pass the moment at which
\* the armed interval is due without the interval firing.
Tick ==
    /\ Alive
    /\ \E i \in 1..Len(iters) :
          iters[i].stage = "build" /\ iters[i].age < WatchdogTicks
    /\ _watchdogTimer # 0 => ~watchdogDue(_watchdogTimer)
    /\ iters' = [i \in 1..Len(iters) |->
                    IF iters[i].stage = "build" /\ iters[i].age < WatchdogTicks
                    THEN [iters[i] EXCEPT !.age = @ + 1]
                    ELSE iters[i]]
    /\ UNCHANGED <<_options, proc, exitCode, _working, lockFile,
                   _loopIntervalId, _stopIntervalId, workspaceDir, ready,
                   _queue, _watchdogTimer, queue, uStage, response>>

\* ------------------------------------------- Builder: the queue connection

\* MongoClient.connect resolves in onStart(): this._queue is set.
MongoConnected ==
    /\ Alive
    /\ _queue = "connecting"
    /\ _queue' = "connected"
    /\ UNCHANGED <<_options, proc, exitCode, _working, lockFile,
                   _loopIntervalId, _stopIntervalId, workspaceDir, ready,
                   iters, _watchdogTimer, queue, uStage, response>>

\* MongoClient.connect rejects: stop().
MongoFailed ==
    /\ Alive
    /\ _queue = "connecting"
    /\ _queue' = "failed"
    /\ stop(COMPILER, proc[COMPILER])
    /\ UNCHANGED <<_options, workspaceDir, ready, iters, _watchdogTimer,
                   queue, uStage, response>>

\* The "close" event of the connected database: stop().
MongoClose ==
    /\ Alive
    /\ _queue = "connected"
    /\ stop(COMPILER, proc[COMPILER])
    /\ UNCHANGED <<_options, workspaceDir, ready, _queue, iters,
                   _watchdogTimer, queue, uStage, response>>

\* ------------------------------------------------------------------ Updater

\* dataFolder: the callback of fse.ensureDir(data/); on an error the waterfall
\* callback runs (sync/ removed, no ready.lock, working(false)).
UpdaterDataFolder(ok) ==
    /\ proc[UPDATER] \in {"starting", "running"}
    /\ uStage = "dataFolder"
    /\ IF ok
       THEN /\ workspaceDir' = TRUE
            /\ uStage' = "sync"
            /\ UNCHANGED <<_working, lockFile>>
       ELSE /\ working(UPDATER, FALSE)
            /\ uStage' = "idle"
            /\ UNCHANGED workspaceDir
    /\ UNCHANGED <<_options, proc, exitCode, _loopIntervalId, _stopIntervalId,
                   ready, _queue, iters, _watchdogTimer, queue, response>>

\* A callback that writes ready.lock whatever the iteration did.
readyAlways(err, nContents) == TRUE

\* A callback that leaves ready.lock only after an iteration that would have
\* written it.
readyRewritten(err, nContents) == ~err /\ nContents > 0

\* ready.lock after the waterfall callback: it is written when there was no
\* error and the listing is not empty, and never removed.
readyAfter(err, nContents) == ready \/ (~err /\ nContents > 0)

\* The waterfall callback of Updater.loop() after syncFolder, list, sync, purge
\* and save: ready.lock is written when there was no error and the listing is
\* not empty; then working(false).
UpdaterFinish(err, nContents) ==
    /\ proc[UPDATER] \in {"starting", "running"}
    /\ uStage = "sync"
    /\ ready' = readyAfter(err, nContents)
    /\ working(UPDATER, FALSE)
    /\ uStage' = "idle"
    /\ UNCHANGED <<_options, proc, exitCode, _loopIntervalId, _stopIntervalId,
                   workspaceDir, _queue, iters, _watchdogTimer, queue,
                   response>>

\* ---------------------------------------------------------------- Admin API

\* API.serviceStatus: working is the presence of {name}.lock.
serviceStatus(name) ==
    /\ response' = [name |-> name, working |-> isProcessWorking(name)]
    /\ UNCHANGED <<_options, proc, exitCode, _working, lockFile,
                   _loopIntervalId, _stopIntervalId, workspaceDir, ready,
                   _queue, iters, _watchdogTimer, queue, uStage>>

\* ------------------------------------------------- Updater: the sync steps

\* s3.listObjects: the objects of the bucket in key order.
listObjects ==
    LET all == [i \in 1..NKeys |-> [Key |-> KeyOrder[i],
                                    LastModified |-> remote[i]]]
    IN  SelectSeq(all, LAMBDA c : c.LastModified > 0)

\* Updater.isPlatformFile: libs and sdks archives carry the platform in their
\* file name; everything else is for every platform.
isPlatformFile(c) ==
    IF c.Key.dirName \in {"libs", "sdks"} THEN c.Key.os = osType ELSE TRUE

\* The head of sync(): the listing without the other platforms' files.
purgedContents(data) == SelectSeq(data, isPlatformFile)

\* Updater.getSyncStatus: IGNORE unless an item of the manifest has the key of
\* the object, in a tracked folder, and its output directory is missing or its
\* date differs.
getSyncStatus(structure, c) ==
    IF \E i \in 1..Len(structure) :
          /\ c.Key.dirName \in Tracked
          /\ structure[i].Key = c.Key
          /\ \/ dirs[getOutputDir(c.Key)] = "absent"
             \/ structure[i].LastModified # toISOString(c.LastModified)
    THEN "DOWNLOAD"
    ELSE "IGNORE"

\* sync()'s decision for one object: DOWNLOAD without a manifest file, and
\* with one that JSON.parse rejects.
syncObject(c) ==
    IF s3_structure.exists /\ s3_structure.parses
    THEN getSyncStatus(s3_structure.items, c)
    ELSE "DOWNLOAD"

\* The first object from position `from` on that sync() downloads; the ones it
\* ignores before that are passed over in the same turn.
RECURSIVE nextDownload(_, _)
nextDownload(data, from) ==
    IF from > Len(data) THEN from
    ELSE IF syncObject(data[from]) = "DOWNLOAD" THEN from
    ELSE nextDownload(data, from + 1)

\* The output directories purge() removes: those of the manifest's items whose
\* key the listing no longer has, if they exist.
purgeable(data, d) ==
    {o \in OutDirs :
        /\ d[o] # "absent"
        /\ \E i \in 1..Len(s3_structure.items) :
              /\ getOutputDir(s3_structure.items[i].Key) = o
              /\ \A j \in 1..Len(data) :
                    data[j].Key # s3_structure.items[i].Key}

\* The directories purge() removes when the manifest file exists.
purged(data, d) ==
    IF s3_structure.exists /\ s3_structure.parses THEN purgeable(data, d)
                                                  ELSE {}

\* sync() going on from object `from` with the cache `d`: either the next
\* download begins, or the series ends and purge() and the head of save() run.
proceed(data, from, d, hist) ==
    LET n == nextDownload(data, from)
    IN  IF n <= Len(data)
        THEN /\ uStep' = "download"
             /\ uIdx' = n
             /\ dirs' = d
             /\ uHist' = [hist EXCEPT !.downloads = @ + 1]
        ELSE /\ uStep' = "save"
             /\ uIdx' = 0
             /\ dirs' = [o \in OutDirs |-> IF o \in purged(data, d)
                                           THEN "absent" ELSE d[o]]
             /\ uHist' = [hist EXCEPT
                            !.deletions = @ + Cardinality(purged(data, d))]

\* The place of a key in KeyOrder.
keyIndex(k) == CHOOSE i \in 1..NKeys : KeyOrder[i] = k

\* The iteration ends: the waterfall callback, and the record of how it went.
finish(err, hist) ==
    /\ UpdaterFinish(err, Len(uData))
    /\ uStep' = "list"
    /\ uIdx' = 0
    /\ uData' = << >>
    /\ uHist' = [hist EXCEPT !.lastOk = ~err]

\* The callback of s3.listObjects (or a failure of syncFolder or list): sync()
\* filters the listing and starts on it.
UpdaterList(ok) ==
    /\ proc[UPDATER] \in {"starting", "running"}
    /\ uStage = "sync"
    /\ uStep = "list"
    /\ IF ok
       THEN LET data == purgedContents(listObjects)
                hist == [lastOk |-> uHist.lastOk,
                         same |-> uHist.lastOk /\ uHist.listed = remote,
                         downloads |-> 0, deletions |-> 0,
                         prev |-> s3_structure,
                         listed |-> remote,
                         failed |-> 0]
            IN  /\ uData' = data
                /\ proceed(data, 1, dirs, hist)
                /\ UNCHANGED coreVars
       ELSE /\ finish(TRUE, [uHist EXCEPT !.failed = 0,
                                            !.prev = s3_structure])
            /\ UNCHANGED dirs
    /\ UNCHANGED <<remote, s3_structure>>

\* The object has arrived in sync/ ("close" of the file stream): its output
\* directory is emptied and tar starts; or the stream failed.
UpdaterDownloaded(ok) ==
    /\ proc[UPDATER] \in {"starting", "running"}
    /\ uStage = "sync"
    /\ uStep = "download"
    /\ IF ~ok
       THEN /\ finish(TRUE, [uHist EXCEPT !.failed = keyIndex(uData[uIdx].Key)])
            /\ UNCHANGED dirs
       ELSE IF getOutputDir(uData[uIdx].Key) = null
       THEN /\ proceed(uData, uIdx + 1, dirs, uHist)
            /\ UNCHANGED <<coreVars, uData>>
       ELSE /\ dirs' = [dirs EXCEPT ![getOutputDir(uData[uIdx].Key)] = "empty"]
            /\ uStep' = "extract"
            /\ UNCHANGED <<coreVars, uData, uIdx, uHist>>
    /\ UNCHANGED <<remote, s3_structure>>

\* The callback of tar: the directory is populated and sync() goes on, or the
\* extraction failed.
UpdaterExtracted(ok) ==
    /\ proc[UPDATER] \in {"starting", "running"}
    /\ uStage = "sync"
    /\ uStep = "extract"
    /\ IF ok
       THEN /\ proceed(uData, uIdx + 1,
                       [dirs EXCEPT ![getOutputDir(uData[uIdx].Key)] = "full"],
                       uHist)
            /\ UNCHANGED <<coreVars, uData>>
       ELSE /\ finish(TRUE, [uHist EXCEPT !.failed = keyIndex(uData[uIdx].Key)])
            /\ UNCHANGED dirs
    /\ UNCHANGED <<remote, s3_structure>>

\* The callback of writeFile in save(): the manifest holds the listing, or the
\* write failed, with the file as it was (it could not be opened) or cut short
\* (it was opened, which truncates it); then the waterfall callback.
UpdaterSaved(ok) ==
    /\ proc[UPDATER] \in {"starting", "running"}
    /\ uStage = "sync"
    /\ uStep = "save"
    /\ IF ok
       THEN s3_structure' = [exists |-> TRUE, parses |-> TRUE,
                             items |-> stringify(uData)]
       ELSE s3_structure' \in {s3_structure, Truncated}
    /\ finish(~ok, uHist)
    /\ UNCHANGED <<remote, dirs>>

\* Somebody uploads an object to the bucket (a new one, or a later version) or
\* deletes one. The Updater reads the bucket once per iteration, in list().
RemoteChange(i, t) ==
    /\ uStage = "idle"
    /\ t \in Stamps(i)
    /\ t # remote[i]
    /\ t # 0 /\ remote[i] # 0 => t > remote[i]
    /\ remote' = [remote EXCEPT ![i] = t]
    /\ UNCHANGED <<coreVars, s3_structure, dirs, uData, uStep, uIdx, uHist>>

\* ----------------------------------------------------------------- Notifier

\* A clean() that leaves every workspace.
cleanNever(i) == projects

\* A clean() that removes the workspace in every environment.
cleanAlways(i) == [projects EXCEPT ![i] = FALSE]

\* Notifier.clean: outside DEVELOP the workspace of the notification is
\* removed.
clean(i) ==
    IF env # "develop" THEN [projects EXCEPT ![i] = FALSE] ELSE projects

\* A send() that takes every response for a success.
anyStatus(statusCode) == TRUE

\* The test of send() on the response of the POST.
isSuccess(statusCode) == statusCode >= 200 /\ statusCode < 400

\* A loop() that gives a notification up one delivery early.
retriesReached(tries) == tries >= MAX_RETRIES_NUMBER

\* A loop() that never gives a notification up.
neverDiscard(tries) == FALSE

\* The test of loop() on the deliveries of the message it got.
tooManyRetries(tries) == tries > MAX_RETRIES_NUMBER

\* The outcomes of request.post: an error, or a response with a status code.
Responses ==
    {[error |-> TRUE, statusCode |-> 0]} \cup
    {[error |-> FALSE, statusCode |-> c] : c \in {200, 302, 404, 500}}

\* The backend took the POST: it answered 2xx or 3xx.
accepted(r) == ~r.error /\ r.statusCode \in 200..399

\* The record of message i after clean() turned the workspaces into p.
cleaned(h, i, p) ==
    [h EXCEPT ![i].removals = IF projects[i] /\ ~p[i] THEN @ + 1 ELSE @]

\* queue.clean(): the deleted documents are removed from the collection.
queueClean(q) ==
    [i \in 1..NMsgs |-> IF q[i].state = "deleted"
                        THEN [q[i] EXCEPT !.state = "removed"] ELSE q[i]]

\* queue.ack on the document: it is deleted if it is still in flight.
acked(i) == [notifications EXCEPT ![i].state = "deleted"]

\* An end of the iteration that leaves the working flag set.
nStaysBusy ==
    /\ nWorking' = nWorking
    /\ nStep' = "idle"
    /\ nMsg' = 0

\* The iteration is over: working(false).
nDone ==
    /\ nWorking' = FALSE
    /\ nStep' = "idle"
    /\ nMsg' = 0

\* Compiler.notify -> queue.add: the notification of a finished build, whose
\* workspace the build created, is stored.
QueueAdd(i) ==
    /\ notifications[i].state = "none"
    /\ notifications' = [notifications EXCEPT ![i].state = "visible"]
    /\ projects' = [projects EXCEPT ![i] = TRUE]
    /\ UNCHANGED <<coreVars, syncVars, launcher, requests, env, nWorking, nStep, nMsg, nHist>>

\* The visibility window of a delivered message ends: it is delivered again.
Visible(i) ==
    /\ notifications[i].state = "inflight"
    /\ notifications' = [notifications EXCEPT ![i].state = "visible"]
    /\ UNCHANGED <<coreVars, syncVars, launcher, requests, env, projects, nWorking, nStep, nMsg,
                   nHist>>

\* Notifier.loop() on the loop interval: working(true) and queue.get.
NotifierLoop ==
    /\ ~nWorking
    /\ nWorking' = TRUE
    /\ nStep' = "get"
    /\ UNCHANGED <<coreVars, syncVars, launcher, requests, env, notifications, projects, nMsg,
                   nHist>>

\* The callback of queue.get: an error, no message, or the oldest visible
\* message, delivered once more. A message delivered too often is acked away;
\* one without code is cleaned and left; any other is pinged and sent, which
\* in DEVELOP succeeds at once without a POST.
GetCallback(err) ==
    /\ nStep = "get"
    /\ LET visible == {i \in 1..NMsgs : notifications[i].state = "visible"}
       IN  IF err \/ visible = {}
           THEN /\ nDone
                /\ UNCHANGED <<notifications, projects, nHist>>
           ELSE LET i == CHOOSE j \in visible : \A k \in visible : j <= k
                    t == IF notifications[i].tries > MAX_RETRIES_NUMBER
                         THEN notifications[i].tries
                         ELSE notifications[i].tries + 1
                IN  /\ notifications' = [notifications EXCEPT ![i] =
                                            [state |-> "inflight", tries |-> t]]
                    /\ IF tooManyRetries(t)
                       THEN /\ nStep' = "discard"
                            /\ nMsg' = i
                            /\ UNCHANGED <<nWorking, projects, nHist>>
                       ELSE IF Payload[i].code = ""
                       THEN /\ nDone
                            /\ projects' = clean(i)
                            /\ nHist' = cleaned(nHist, i, clean(i))
                       ELSE /\ nStep' = IF env = "develop" THEN "ack" ELSE "post"
                            /\ nMsg' = i
                            /\ nHist' = IF env = "develop" THEN nHist
                                        ELSE [nHist EXCEPT ![i].sent = @ + 1]
                            /\ UNCHANGED <<nWorking, projects>>
    /\ UNCHANGED <<coreVars, syncVars, launcher, requests, env>>

\* The callback of request.post in send(): on success queue.ack is called, on
\* anything else the message is left in flight.
PostCallback(r) ==
    /\ nStep = "post"
    /\ nHist' = [nHist EXCEPT ![nMsg].posts =
                    IF accepted(r) /\ @ < MaxPosts THEN @ + 1 ELSE @]
    /\ IF ~r.error /\ isSuccess(r.statusCode)
       THEN /\ nStep' = "ack"
            /\ UNCHANGED <<nWorking, nMsg>>
       ELSE nDone
    /\ UNCHANGED <<coreVars, syncVars, launcher, requests, env, notifications, projects>>

\* The callback of queue.ack after a successful send: the message is gone from
\* the queue, the queue is cleaned and the workspace removed; or the ack
\* failed (the document is no longer in flight, or the database failed).
AckCallback(ok) ==
    /\ nStep = "ack"
    /\ ok => notifications[nMsg].state = "inflight"
    /\ nDone
    /\ IF ok
       THEN /\ notifications' = queueClean(acked(nMsg))
            /\ projects' = clean(nMsg)
            /\ nHist' = cleaned([nHist EXCEPT ![nMsg].acks = @ + 1],
                                nMsg, clean(nMsg))
       ELSE /\ nHist' = [nHist EXCEPT ![nMsg].ackFailed = TRUE]
            /\ UNCHANGED <<notifications, projects>>
    /\ UNCHANGED <<coreVars, syncVars, launcher, requests, env>>

\* The callback of queue.ack for a message with too many retries:
\* working(false); unless the ack failed, the workspace is removed.
DiscardCallback(ok) ==
    /\ nStep = "discard"
    /\ ok => notifications[nMsg].state = "inflight"
    /\ nDone
    /\ IF ok
       THEN /\ notifications' = acked(nMsg)
            /\ projects' = clean(nMsg)
            /\ nHist' = cleaned([nHist EXCEPT ![nMsg].acks = @ + 1,
                                              ![nMsg].discards = @ + 1],
                                nMsg, clean(nMsg))
       ELSE /\ nHist' = [nHist EXCEPT ![nMsg].ackFailed = TRUE]
            /\ UNCHANGED <<notifications, projects>>
    /\ UNCHANGED <<coreVars, syncVars, launcher, requests, env>>

\* ------------------------------------------------------------ specification

\* The Builder process and its build children.
BuilderNext ==
    \/ Start(COMPILER)
    \/ NetworkIPError(COMPILER)
    \/ NetworkIPService(COMPILER)
    \/ NetworkIPConsole(COMPILER)
    \/ LoopTick(COMPILER)
    \/ Signal(COMPILER)
    \/ StopTick(COMPILER)
    \/ \E i \in 1..MaxIters, ok \in BOOLEAN : InitDone(i, ok)
    \/ \E i \in 1..MaxIters, why \in {"request", "malformed"} : FetchFail(i, why)
    \/ \E i \in 1..MaxIters : FetchThrow(i)
    \/ \E i \in 1..MaxIters, job \in Jobs, forked \in BOOLEAN : FetchJob(i, job, forked)
    \/ \E i \in 1..MaxIters, m \in {"null", "error"} : ChildSend(i, m)
    \/ \E i \in 1..MaxIters : ChildExit(i)
    \/ \E i \in 1..MaxIters : ChildCrash(i)
    \/ \E i \in 1..MaxIters : OnMessage(i)
    \/ \E i \in 1..MaxIters : OnExit(i)
    \/ \E i \in 1..MaxIters : OnError(i)
    \/ \E i \in 1..MaxIters : WatchdogFire(i)
    \/ \E i \in 1..MaxIters : StreamError(i)
    \/ \E i \in 1..MaxIters, stored \in BOOLEAN : NotifyDone(i, stored)
    \/ Tick
    \/ MongoConnected
    \/ MongoFailed
    \/ MongoClose

Next == BuilderNext /\ UNCHANGED restVars

Spec == Init /\ [][Next]_vars

\* The Updater process.
UpdaterNext ==
    \/ Start(UPDATER)
    \/ NetworkIPError(UPDATER)
    \/ NetworkIPService(UPDATER)
    \/ LoopTick(UPDATER)
    \/ \E ok \in BOOLEAN : UpdaterDataFolder(ok)
    \/ \E err \in BOOLEAN, n \in 0..1 : UpdaterFinish(err, n)

\* The Builder on a host where nothing fails but the backend having no job:
\* the child reports and exits, the queue connects and stores.
BuilderQuiet ==
    \/ Start(COMPILER)
    \/ NetworkIPService(COMPILER)
    \/ NetworkIPConsole(COMPILER)
    \/ LoopTick(COMPILER)
    \/ \E i \in 1..MaxIters : InitDone(i, TRUE)
    \/ \E i \in 1..MaxIters : FetchFail(i, "request")
    \/ \E i \in 1..MaxIters, job \in Jobs : FetchJob(i, job, TRUE)
    \/ \E i \in 1..MaxIters, m \in {"null", "error"} : ChildSend(i, m)
    \/ \E i \in 1..MaxIters : ChildExit(i)
    \/ \E i \in 1..MaxIters : OnMessage(i)
    \/ \E i \in 1..MaxIters : OnExit(i)
    \/ \E i \in 1..MaxIters : NotifyDone(i, TRUE)
    \/ MongoConnected

\* Cold start: the Builder polls next to an Updater that has yet to write
\* ready.lock.
GateInit == Init /\ ~ready

GateNext == (UpdaterNext \/ BuilderQuiet) /\ UNCHANGED restVars

GateSpec == GateInit /\ [][GateNext]_vars

\* The Builder facing a backend that has no job for it: every iteration ends
\* in init or in fetch.
BuilderIdle ==
    \/ Start(COMPILER)
    \/ NetworkIPError(COMPILER)
    \/ NetworkIPService(COMPILER)
    \/ NetworkIPConsole(COMPILER)
    \/ LoopTick(COMPILER)
    \/ \E i \in 1..MaxIters, ok \in BOOLEAN : InitDone(i, ok)
    \/ \E i \in 1..MaxIters : FetchFail(i, "request")
    \/ MongoConnected
    \/ MongoFailed
    \/ MongoClose

\* The lifecycle of both services, their signals, and the Admin API reading
\* the lockfiles.
LifeSteps ==
    \/ UpdaterNext
    \/ BuilderIdle
    \/ \E s \in Services : Signal(s)
    \/ \E s \in Services : StopTick(s)
    \/ \E s \in Services : serviceStatus(s)

LifeNext == LifeSteps /\ UNCHANGED restVars

LifeSpec == Init /\ [][LifeNext]_vars

\* The stop re-check is an interval: once armed it keeps firing for as long
\* as the process lives.
LifeFair ==
    /\ LifeSpec
    /\ \A s \in Services : WF_vars(StopTick(s) /\ UNCHANGED restVars)

\* The Updater daemon syncing the cache from a bucket that changes.
SyncInit ==
    /\ CoreInit
    /\ ~ready /\ workspaceDir
    /\ _options[COMPILER].service
    /\ \E r \in [1..NKeys -> 0..MaxStamp] :
          /\ \A i \in 1..NKeys : r[i] \in 0..1
          /\ Fresh(r)
    /\ SyncIdle
    /\ env = "production"
    /\ NotifyIdle
    /\ launcher = NotForked
    /\ requests = NoRequests

SyncSteps ==
    \/ /\ \/ Start(UPDATER)
          \/ NetworkIPService(UPDATER)
          \/ LoopTick(UPDATER)
          \/ \E ok \in BOOLEAN : UpdaterDataFolder(ok)
       /\ UNCHANGED syncVars
    \/ \E ok \in BOOLEAN : UpdaterList(ok)
    \/ \E ok \in BOOLEAN : UpdaterDownloaded(ok)
    \/ \E ok \in BOOLEAN : UpdaterExtracted(ok)
    \/ \E ok \in BOOLEAN : UpdaterSaved(ok)
    \/ \E i \in 1..NKeys, t \in 0..MaxStamp : RemoteChange(i, t)

SyncNext == SyncSteps /\ UNCHANGED <<notifyVars, launcher, requests>>

SyncSpec == SyncInit /\ [][SyncNext]_vars

\* The Builder next to the Updater of the same host, which has synced once:
\* the two are separate processes that share the data folder.
CacheInit ==
    /\ CoreInit
    /\ ready /\ workspaceDir
    /\ _options[COMPILER].service
    /\ Synced
    /\ SyncIdle
    /\ env = "production"
    /\ NotifyIdle
    /\ launcher = NotForked
    /\ requests = NoRequests

\* One job built without a failure, while the Updater syncs without a
\* failure and plugins/X is uploaded anew or deleted.
CacheSteps ==
    \/ /\ \/ Start(COMPILER)
          \/ NetworkIPService(COMPILER)
          \/ LoopTick(COMPILER)
          \/ MongoConnected
          \/ InitDone(1, TRUE)
          \/ \E job \in Jobs : FetchJob(1, job, TRUE)
          \/ \E m \in {"null", "error"} : ChildSend(1, m)
          \/ ChildExit(1)
          \/ OnMessage(1)
          \/ OnExit(1)
          \/ NotifyDone(1, TRUE)
          \/ Start(UPDATER)
          \/ NetworkIPService(UPDATER)
          \/ LoopTick(UPDATER)
          \/ UpdaterDataFolder(TRUE)
       /\ UNCHANGED syncVars
    \/ UpdaterList(TRUE)
    \/ UpdaterDownloaded(TRUE)
    \/ UpdaterExtracted(TRUE)
    \/ UpdaterSaved(TRUE)
    \/ \E t \in 0..MaxStamp : RemoteChange(2, t)

CacheNext == CacheSteps /\ UNCHANGED <<notifyVars, launcher, requests>>

CacheSpec == CacheInit /\ [][CacheNext]_vars

\* The Notifier daemon and the queue the Builder fills.
NotifyInit ==
    /\ CoreInit
    /\ ready /\ _options[COMPILER].service
    /\ Synced
    /\ SyncIdle
    /\ env \in Envs
    /\ NotifyIdle
    /\ launcher = NotForked
    /\ requests = NoRequests

NotifyNext ==
    \/ \E i \in 1..NMsgs : QueueAdd(i)
    \/ \E i \in 1..NMsgs : Visible(i)
    \/ NotifierLoop
    \/ \E err \in BOOLEAN : GetCallback(err)
    \/ \E r \in Responses : PostCallback(r)
    \/ \E ok \in BOOLEAN : AckCallback(ok)
    \/ \E ok \in BOOLEAN : DiscardCallback(ok)

NotifySpec == NotifyInit /\ [][NotifyNext]_vars

\* The loop interval keeps firing, every callback comes, the visibility window
\* of a message in flight ends, and the queue does not fail for ever.
NotifyFair ==
    /\ NotifySpec
    /\ WF_vars(NotifierLoop)
    /\ \A i \in 1..NMsgs : WF_vars(Visible(i))
    /\ WF_vars(\E err \in BOOLEAN : GetCallback(err))
    /\ WF_vars(\E r \in Responses : PostCallback(r))
    /\ WF_vars(\E ok \in BOOLEAN : AckCallback(ok))
    /\ WF_vars(\E ok \in BOOLEAN : DiscardCallback(ok))
    /\ SF_vars(GetCallback(FALSE))
    /\ SF_vars(AckCallback(TRUE))
    /\ SF_vars(DiscardCallback(TRUE))

\* ------------------------------------------------------------------ claims

\* How many stored notifications carry the job of iteration record `it`.
notified(it) ==
    Cardinality({k \in 1..Len(queue) :
                    /\ queue[k].code = it.code
                    /\ queue[k].platform = it.platform
                    /\ queue[k].starttime = it.starttime})

\* The build children of the Builder that are alive.
childrenAlive == {i \in 1..Len(iters) : iters[i].child = "running"}

\* C1: in every reachable state of a Builder at most one build child it
\* spawned is alive, also after the uncaughtException handler has reset
\* working to false while a child was running.
C1_AtMostOneChild == Cardinality(childrenAlive) <= 1

\* C2 as stated: once an iteration that fetched a job has its build result
\* and its queue call has returned, exactly one notification with the job's
\* code, platform and starttime is stored.
C2_ExactlyOne ==
    \A i \in 1..Len(iters) :
        iters[i].stage = "done" /\ iters[i].cbCalled /\ iters[i].notif # "pending"
            => notified(iters[i]) = 1

\* C2 amended: a job never has more than one stored notification; it has one
\* exactly when the add of a daemon-mode Builder reported success, and none
\* in one-shot mode, after a failed add, or when notify() threw; the queue
\* holds nothing else.
C2_AtMostOne ==
    /\ \A i \in 1..Len(iters) :
          /\ notified(iters[i]) = (IF iters[i].notif = "added" THEN 1 ELSE 0)
          /\ iters[i].notif = "added"
                => _options[COMPILER].service /\ iters[i].cbCalled
          /\ iters[i].stage = "done" /\ iters[i].cbCalled
                /\ ~_options[COMPILER].service => iters[i].notif = "skipped"
    /\ Len(queue) = Cardinality({i \in 1..Len(iters) : iters[i].notif = "added"})

C2_Witness ==
    \E i \in 1..Len(iters) :
        /\ iters[i].notif = "added"
        /\ notified(iters[i]) = 1
        /\ queue[Len(queue)].msg_internal # "undefined"

\* The result each event hands to cb.
resultOf(it) ==
    CASE it.first = "message"  -> IF it.msg = "error" THEN "ipc" ELSE "none"
      [] it.first = "exit"     -> IF it.exit = "0" THEN "none" ELSE "abnormal"
      [] it.first = "error"    -> "spawn"
      [] it.first = "watchdog" -> "watchdog"
      [] OTHER                 -> "none"

\* C3: for one build the first handled of {IPC message, exit, watchdog, spawn
\* error} fixes the result passed to the pipeline callback; later events of
\* the build change nothing and cb is invoked once, never twice.
C3_OnceLatch ==
    /\ [](\A i \in 1..Len(iters) :
            /\ iters[i].cbCount <= 1
            /\ iters[i].cbCalled <=> iters[i].cbCount = 1
            /\ iters[i].first # "none"
                  => iters[i].cbCalled /\ iters[i].err = resultOf(iters[i]))
    /\ [][\A i \in 1..Len(iters) :
            iters[i].cbCalled
               => /\ iters'[i].cbCount = 1
                  /\ ~settled(iters'[i])
                        => /\ iters'[i].err = iters[i].err
                           /\ iters'[i].first = iters[i].first]_vars

\* A watchdog-resolved build whose exit event was handled afterwards.
C3_Witness ==
    \E i \in 1..Len(iters) :
        /\ iters[i].first = "watchdog"
        /\ iters[i].exit = "SIGKILL"
        /\ ~iters[i].evExit
        /\ iters[i].cbCount = 1

\* C4: the Builder starts no iteration, fetches no job and forks no child in
\* a poll that finds ready.lock absent: while the file is absent working stays
\* false and nothing is fetched; the first poll that finds it starts an
\* iteration, which goes on to fetch.
C4_ReadyGate ==
    /\ [](~ready => iters = << >> /\ ~_working[COMPILER]
                    /\ ~lockFile[COMPILER])
    /\ [][Len(iters') > Len(iters) => ready]_vars
    /\ [][ready /\ iters = << >> /\ LoopTick(COMPILER)
             => /\ Len(iters') = 1
                /\ _working'[COMPILER]
                /\ iters'[1].stage = "init"]_vars

\* The Updater wrote ready.lock and the Builder has fetched a job since.
C4_Witness ==
    /\ ready
    /\ proc[UPDATER] # "created"
    /\ Len(iters) >= 1
    /\ iters[1].stage = "build"

\* C5: a build with no terminal event handled when 2,700,000 ms have passed
\* since the fork has its watchdog armed, so that it fires, kills the child
\* and resolves the build; a build the watchdog resolved carries the fixed
\* pair of messages.
C5_WatchdogResolves ==
    \A i \in 1..Len(iters) :
        /\ Alive /\ iters[i].stage = "build" /\ ~iters[i].cbCalled
              /\ watchdogDue(i) => _watchdogTimer = i
        /\ iters[i].first = "watchdog"
              => /\ msgInternal(iters[i].err)
                        = "Compilation took too long, killing..."
                 /\ msgPublic(iters[i].err)
                        = "The compilation exceed the designated time."
                 /\ iters[i].child # "running"

\* C6 as stated: a job whose notification is stored has a child that is no
\* longer running.
C6_ChildGone ==
    \A i \in 1..Len(iters) :
        iters[i].notif = "added" => iters[i].child # "running"

\* The child of a build is still at work: alive, and its final IPC message
\* not sent.
building(it) == it.child = "running" /\ it.msg = "none"

\* C6 amended: a job whose notification was handed to the queue has a child
\* that is no longer at work: it has exited, was killed, never came to be, or
\* has sent its final message and has only process.exit(0) left to run.
C6_ChildDone ==
    \A i \in 1..Len(iters) :
        iters[i].notif \in {"pending", "added", "failed", "threw"}
            => ~building(iters[i])

\* A stored notification of a child that has sent its message and not exited.
C6_Witness ==
    \E i \in 1..Len(iters) :
        /\ iters[i].notif = "added"
        /\ iters[i].child = "running"
        /\ iters[i].msg # "none"

\* An uncaught exception arose in this iteration.
broke(it) == it.stage = "dead" \/ it.notif = "threw" \/ it.stream = "error"

\* C7 as stated: an iteration begins only after the previous one, if it had a
\* job, has its notification stored or had its child killed by the watchdog.
C7_AfterNotify ==
    [][Len(iters') > Len(iters) /\ Len(iters) > 0
          /\ iters[Len(iters)].starttime > 0
          => \/ iters[Len(iters)].notif = "added"
             \/ iters[Len(iters)].exit = "SIGKILL"]_vars

\* C7 amended: an iteration begins only with working = false and ready.lock
\* present; unless an uncaught exception has reset the flag, the previous
\* iteration's waterfall callback has run by then, and a daemon that had a
\* job has handed its notification to the queue, stored or not.
C7_AfterCallback ==
    [][Len(iters') > Len(iters)
          => /\ ~_working[COMPILER]
             /\ ready
             /\ Len(iters) > 0
                   => \/ \E j \in 1..Len(iters) : broke(iters[j])
                      \/ /\ iters[Len(iters)].stage = "done"
                         /\ iters[Len(iters)].starttime > 0
                               => iters[Len(iters)].notif
                                     \in {"pending", "added", "failed"}]_vars

\* A second iteration running while the first one's add is outstanding.
C7_Witness ==
    /\ Len(iters) = 2
    /\ iters[1].notif = "pending"
    /\ iters[1].stage = "done"
    /\ \A j \in 1..2 : ~broke(iters[j])

\* A step in which service s runs stop(): a signal, the stop re-check, a
\* failed IP lookup, or a lost queue connection of the Builder.
stopStep(s) ==
    \/ Signal(s)
    \/ StopTick(s)
    \/ NetworkIPError(s)
    \/ s = COMPILER /\ (MongoFailed \/ MongoClose)

\* C8: stop() never ends the process of a working service: run with
\* working = true it only cancels the loop timer and arms the re-check; a
\* daemon's process exits only from a state with working = false, leaving the
\* flag false and no lockfile.
C8_StopWaits ==
    [][\A s \in Services :
          /\ stopStep(s) /\ _working[s]
                => /\ proc'[s] # "exited"
                   /\ ~_loopIntervalId'[s]
                   /\ _stopIntervalId'[s]
                   /\ _working'[s]
                   /\ lockFile'[s] = lockFile[s]
          /\ _options[s].service /\ proc[s] # "exited" /\ proc'[s] = "exited"
                => /\ ~_working[s]
                   /\ ~_working'[s]
                   /\ ~lockFile'[s]
                   /\ exitCode'[s] = "0"]_vars

\* stop() has found the Builder working and is waiting for it.
C8_Witness ==
    /\ proc[COMPILER] = "running"
    /\ _working[COMPILER]
    /\ _stopIntervalId[COMPILER]
    /\ ~_loopIntervalId[COMPILER]

\* stop() has been requested of daemon s and has not ended the process yet.
stopPending(s) ==
    _options[s].service /\ _stopIntervalId[s] /\ proc[s] # "exited"

\* C9: a daemon of which stop() was requested terminates in the end unless
\* it stays working for ever; requested of an idle daemon, stop() terminates
\* it in that step.
C9_StopTerminates ==
    /\ \A s \in Services :
          [](stopPending(s) => <>(proc[s] = "exited" \/ [] _working[s]))
    /\ [][\A s \in Services :
             Signal(s) /\ ~_working[s]
                => proc'[s] = "exited" /\ exitCode'[s] = "0"]_vars

\* The Updater has terminated through a stop() that first had to wait.
C9_Witness ==
    /\ proc[UPDATER] = "exited"
    /\ exitCode[UPDATER] = "0"
    /\ _stopIntervalId[UPDATER]

\* C10: for every service {id}.lock exists exactly when the service's working
\* flag is true, so that the working the Admin API reports is the flag.
C10_LockIffWorking ==
    /\ \A s \in Services : lockFile[s] <=> _working[s]
    /\ \A s \in Services : isProcessWorking(s) = _working[s]

\* A step in which an exception of iteration i reaches the process: a throw
\* in fetch, an error of the log stream, or the TypeError of notify() outside
\* the try/catch of the exit handler.
exceptionStep(i) ==
    \/ FetchThrow(i)
    \/ StreamError(i)
    \/ /\ OnMessage(i) \/ OnError(i) \/ WatchdogFire(i)
             \/ (OnExit(i) /\ iters[i].exit # "0")
       /\ iters[i].notif # "threw"
       /\ iters'[i].notif = "threw"

\* C11: in daemon mode an exception nobody catches inside an iteration sets
\* working to false and removes the lockfile, and leaves the process alive
\* with its loop timer as it was, so that the next poll finds working = false.
C11_ExceptionResets ==
    [][\A i \in 1..Len(iters) :
          exceptionStep(i) /\ _options[COMPILER].service
             => /\ ~_working'[COMPILER]
                /\ ~lockFile'[COMPILER]
                /\ proc'[COMPILER] = proc[COMPILER]
                /\ proc'[COMPILER] # "exited"
                /\ exitCode'[COMPILER] = "none"
                /\ _loopIntervalId'[COMPILER] = _loopIntervalId[COMPILER]]_vars

\* A poll has started a second iteration after an exception in the first.
C11_Witness ==
    /\ _options[COMPILER].service
    /\ proc[COMPILER] = "running"
    /\ _loopIntervalId[COMPILER]
    /\ Len(iters) = 2
    /\ broke(iters[1])
    /\ iters[2].stage = "init"

\* ----------------------------------------------------- claims: the Updater

\* The output directories that exist in the cache.
present == {o \in OutDirs : dirs[o] # "absent"}

\* The output directories derived from the keys of a manifest.
derived(items) == {getOutputDir(items[i].Key) : i \in 1..Len(items)} \ {null}

\* The Updater is between iterations and the last one ended without error.
endedOk == uStage = "idle" /\ uStep = "list" /\ uHist.lastOk

\* C12: after an Updater iteration that completes without error, the output
\* directories present in the cache are exactly those derived from the keys
\* of the manifest the iteration persisted.
C12_CacheIsManifest == endedOk => present = derived(s3_structure.items)

\* C13: whenever ready.lock exists, every output directory derived from an
\* entry of the last persisted manifest exists, also while a later iteration
\* downloads, extracts or purges.
C13_ReadyCacheComplete == ready => derived(s3_structure.items) \subseteq present

\* C14: whenever ready.lock exists the persisted manifest is not empty, also
\* after a later iteration whose filtered listing is empty.
C14_ReadyManifestNonEmpty ==
    ready => s3_structure.exists /\ Len(s3_structure.items) > 0

\* C15: an iteration that starts from the state an error-free iteration left
\* and lists an unchanged bucket downloads nothing, removes no directory and
\* leaves the manifest as it was.
C15_RerunIdempotent ==
    endedOk /\ uHist.same =>
        /\ uHist.downloads = 0
        /\ uHist.deletions = 0
        /\ s3_structure = uHist.prev

\* The keys the last iteration listed (for this platform).
listedKeys ==
    {KeyOrder[i] : i \in {j \in 1..NKeys : /\ uHist.listed[j] > 0
                                           /\ isPlatformFile([Key |-> KeyOrder[j]])}}

\* The keys of the manifest the last iteration found.
prevKeys == {uHist.prev.items[i].Key : i \in 1..Len(uHist.prev.items)}

\* The manifest a save() of the last iteration's listing writes.
listedManifest ==
    LET all == [i \in 1..NKeys |-> [Key |-> KeyOrder[i],
                                    LastModified |-> uHist.listed[i]]]
    IN  stringify(SelectSeq(all, LAMBDA c : c.LastModified > 0 /\ isPlatformFile(c)))

\* C16: when the bucket has gained a key of a tracked folder and lost a key of
\* the persisted manifest, then after one error-free iteration the directory
\* of the new key is populated, the directory of the lost key does not exist
\* and the manifest is the new listing.
C16_GainAndLose ==
    /\ endedOk
    /\ uHist.prev.exists
    /\ \E k \in listedKeys \ prevKeys : k.dirName \in Tracked
    /\ \E k \in prevKeys \ listedKeys : k.dirName \in Tracked
    => /\ \A k \in listedKeys \ prevKeys :
            k.dirName \in Tracked => dirs[getOutputDir(k)] = "full"
       /\ \A k \in prevKeys \ listedKeys :
            k.dirName \in Tracked => dirs[getOutputDir(k)] = "absent"
       /\ s3_structure = [exists |-> TRUE, parses |-> TRUE,
                          items |-> listedManifest]

\* ---------------------------------------------------- claims: the Notifier

\* Message i is out of the queue for good.
terminal(i) == notifications[i].state \in {"deleted", "removed"}

\* The step in which the ack of message i, sent successfully, succeeds.
ackStep(i) ==
    /\ nStep = "ack"
    /\ nMsg = i
    /\ ~terminal(i)
    /\ notifications'[i].state \in {"deleted", "removed"}

C18_DevelopKeeps ==
    env = "develop" =>
        \A i \in 1..NMsgs : notifications[i].state # "none" => projects[i]

C18_Witness ==
    /\ env = "develop"
    /\ terminal(1) /\ nHist[1].acks = 1 /\ nHist[1].ackFailed
    /\ terminal(2) /\ nHist[2].discards = 1
    /\ projects[1] /\ projects[2]

oneShot == ~_options[COMPILER].service

\* The pipeline of some iteration (init, fetch, build) ended without error.
pipelineOk ==
    \E i \in 1..Len(iters) : iters[i].stage = "done" /\ iters[i].err = "none"

\* C21: a one-shot Builder exits with code 0 exactly when the pipeline of its
\* job completed without error and with -1 otherwise; in daemon mode no step
\* of a job's pipeline ends the process or disarms the loop interval.
C21_ExitCodes ==
    /\ [](oneShot /\ proc[COMPILER] = "exited"
            => exitCode[COMPILER] = (IF pipelineOk THEN "0" ELSE "-1"))
    /\ [][~oneShot /\ iters' # iters
            => /\ proc'[COMPILER] = proc[COMPILER]
               /\ _loopIntervalId'[COMPILER] = _loopIntervalId[COMPILER]]_vars

\* The LastModified the manifest stores for the key of c differs from the
\* remote one; a key without stored entry differs.
storedDiffers(c) ==
    ~\E i \in 1..Len(s3_structure.items) :
        /\ s3_structure.items[i].Key = c.Key
        /\ s3_structure.items[i].LastModified = toISOString(c.LastModified)

\* C22: for every listed entry of a tracked folder the Updater decides
\* DOWNLOAD when there is no manifest, or the output directory of the entry is
\* missing, or the stored LastModified of its key differs from the remote one
\* (a key without stored entry included), and IGNORE otherwise.
C22_SyncDecision ==
    \A j \in 1..Len(purgedContents(listObjects)) :
        LET c == purgedContents(listObjects)[j]
        IN  c.Key.dirName \in Tracked =>
                syncObject(c) = IF \/ ~s3_structure.exists
                                   \/ dirs[getOutputDir(c.Key)] = "absent"
                                   \/ storedDiffers(c)
                                THEN "DOWNLOAD" ELSE "IGNORE"

\* The Updater is between iterations, the last one was ended by the download
\* or extraction of a listed object, and the bucket is as that one listed it.
abortedOn(j) ==
    /\ uStage = "idle" /\ uStep = "list"
    /\ uHist.failed = j
    /\ remote = uHist.listed

\* C23: an iteration in which the download or extraction of an entry fails
\* is aborted (no manifest is saved), and with the bucket unchanged the next
\* iteration decides DOWNLOAD for that entry again.
C23_FailedIsRedone ==
    \A j \in 1..NKeys :
        abortedOn(j) =>
            /\ ~uHist.lastOk
            /\ s3_structure = uHist.prev
            /\ syncObject([Key |-> KeyOrder[j], LastModified |-> remote[j]])
                  = "DOWNLOAD"

\* A step that ends an Updater iteration with an error.
errorEnd ==
    /\ uStage # "idle"
    /\ uStage' = "idle"
    /\ uStage = "dataFolder" \/ ~uHist'.lastOk

\* The manifest the iteration that ends in this step started with.
manifestBefore == IF uStage = "dataFolder" THEN s3_structure ELSE uHist'.prev

\* The Updater is left running, idle, with its loop interval as it was.
staysRunning ==
    /\ proc'[UPDATER] = proc[UPDATER]
    /\ _loopIntervalId'[UPDATER] = _loopIntervalId[UPDATER]
    /\ ~_working'[UPDATER]

searchpath == {o \in OutDirs : o.folder = "plugins"}

\* C25: while a build child is in progress, no step of the Updater empties,
\* re-extracts or removes a cache directory the running job uses.
C25_CacheUntouched ==
    [][(\E i \in 1..Len(iters) : iters[i].stage = "build"
                                    /\ iters[i].child = "running")
          => \A o \in searchpath : dirs'[o] = dirs[o]]_vars

\* ------------------------------------------- Notifier: acks and retries

\* The POST of the message in hand came back and was not taken: a transport
\* error, or a response outside 2xx/3xx.
postRefused ==
    /\ nStep = "post" /\ nStep' # "post"
    /\ nHist[nMsg].posts < MaxPosts
    /\ nHist'[nMsg].posts = nHist[nMsg].posts

\* C26: outside DEVELOP a message is acked only after a 2xx/3xx response to
\* its POST or when its tries exceed 20; when the POST meets a transport
\* error or a 4xx/5xx response the message is not acked, the workspace stays,
\* and the working flag is cleared, the message staying in flight for a
\* later delivery.
C26_AckOnlyAfterSuccess ==
    [][env # "develop" =>
          /\ \A i \in 1..NMsgs :
                nHist'[i].acks > nHist[i].acks =>
                   \/ notifications[i].tries > MAX_RETRIES_NUMBER
                   \/ nHist[i].posts > 0
          /\ postRefused =>
                /\ notifications' = notifications
                /\ projects' = projects
                /\ ~nWorking']_vars

\* A notification with a code is in flight outside DEVELOP with the Notifier
\* idle after a refused POST: no ack was tried, the workspace is there.
C26_Witness ==
    /\ env # "develop"
    /\ nStep = "idle" /\ ~nWorking
    /\ \E i \in 1..NMsgs :
          /\ Payload[i].code # ""
          /\ notifications[i].state = "inflight"
          /\ notifications[i].tries = 1
          /\ nHist[i].posts = 0
          /\ ~nHist[i].ackFailed
          /\ projects[i]

\* queue.get hands message i to the loop in this step.
gotten(i) ==
    /\ notifications[i].state = "visible"
    /\ notifications'[i].state = "inflight"

\* The step is the ack that discards message i.
discarded(i) == nHist'[i].discards > nHist[i].discards

\* Every message is discarded unsent after too many deliveries, its workspace
\* removed outside DEVELOP, and it is never POSTed more than 20 times.
discardRule ==
    /\ [][\A i \in 1..NMsgs :
            /\ (gotten(i) /\ notifications'[i].tries > MAX_RETRIES_NUMBER)
                  => (nStep' = "discard" /\ nMsg' = i /\ nHist' = nHist)
            /\ discarded(i)
                  => /\ nHist'[i].sent = nHist[i].sent
                     /\ notifications'[i].state = "deleted"
                     /\ (env # "develop" => ~projects'[i])]_vars
    /\ [](\A i \in 1..NMsgs : nHist[i].sent <= MAX_RETRIES_NUMBER)

C28_CodelessDropped ==
    /\ [][\A i \in 1..NMsgs :
            (/\ Payload[i].code = ""
             /\ notifications[i].state = "visible"
             /\ notifications'[i].state # "visible")
               => /\ nHist'[i].sent = 0
                  /\ (env # "develop" => ~projects'[i])
                  /\ notifications'[i].state \in {"deleted", "removed"}]_vars
    /\ [](\A i \in 1..NMsgs :
            Payload[i].code = "" => notifications[i].tries <= 1)

\* ------------------------------------------------- Builder: error reports

\* C29: a fetched job whose JSON lacks a required field ends its iteration
\* with a failure notification that has a public message, handed to the
\* queue; the job is not fetched again.
C29_MalformedNotified ==
    \A i \in 1..Len(iters) :
       (/\ _options[COMPILER].service
        /\ iters[i].stage = "done"
        /\ iters[i].err = "malformed")
          => /\ iters[i].notif \in {"pending", "added", "failed"}
             /\ msgPublic(iters[i].err) # "undefined"

\* C30: the notification queued for a build that resolved with an error,
\* whichever of the IPC error message, an abnormal exit, the watchdog or a
\* spawn error produced it, has a msg_public with the "CORDOVA LOG:" section
\* (the tail of cordova.log).
C30_ErrorsCarryLog ==
    \A j \in 1..Len(queue) :
       queue[j].msg_internal # "undefined"
          => queue[j].msg_public = "CORDOVA LOG"

\* C31: when the build child exits with a non-zero code or by a signal before
\* any IPC message was handled, the queued notification is a failure whose
\* msg_internal and msg_public are both "Process exited abnormally ...".
C31_AbnormalExitBothTexts ==
    \A j \in 1..Len(queue) :
       queue[j].msg_internal = msgInternal("abnormal")
          => queue[j].msg_public = msgInternal("abnormal")

\* ------------------------------------------- the build child, step by step

\* The platforms builder_launcher has a Builder for.
PlatformNames == {"android", "ios", "osx", "windows", "ubuntu"}

Apple == {"ios", "osx"}

\* The limit of WindowsBuilder.build on the length of the project name.
MaxNameLength == 40

\* What the child says over IPC: null, or an error with its public message.
ipcNull == [error |-> FALSE, msgPublic |-> "none"]

ipcError(public) == [error |-> TRUE, msgPublic |-> public]

\* A child as child_process.fork leaves it: -j given or not, the platform of
\* the job, signed or not, the length of the name in config.xml.
Forked(json, platform, key, len) ==
    [ pc |-> "args",         \* where the child is; "exited" and "hung" end it
      json |-> json, platform |-> platform, key |-> key, nameLen |-> len,
      stage |-> "none",      \* the stage of Builder.start entered last
      task |-> 0,            \* the task of build() in progress
      ran |-> 0,             \* how many tasks of build() were started
      built |-> "no",        \* build()'s cb: "no" | "ok" | "error"
      found |-> "unknown",   \* what pack() found: "missing" | "none" | "some"
      keychain |-> FALSE,    \* the job's keychain exists
      profile |-> FALSE,     \* the provisioning profile is in the OS store
      sent |-> << >>,        \* the IPC messages sent, in order
      exit |-> "none" ]      \* the exit code: "0" | "-1" | "1"

\* The children a Builder may fork; the name matters to Windows jobs only.
Launches ==
    {Forked(json, platform, key, len) :
        json \in BOOLEAN, platform \in PlatformNames \cup {"tizen"},
        key \in BOOLEAN, len \in {MaxNameLength, MaxNameLength + 1}}

\* The task list build() hands to async.waterfall.
tasks(l) ==
    CASE l.platform = "android" ->
            IF l.key THEN <<"createCertsFolder", "keystore", "buildJson",
                            "compile">>
                     ELSE <<"compile", "compile">>
      [] l.platform = "windows" ->
            IF l.key THEN <<"createCertsFolder", "pfx", "removePfx",
                            "installPfx", "buildJson", "compile", "removePfx">>
                     ELSE <<"compile">>
      [] l.platform \in Apple ->
            IF l.key THEN <<"createCertsFolder", "p12", "provisioning",
                            "removeKeychain", "addKeychain",
                            "installProvisioningProfile", "buildJson",
                            "buildPrepare", "buildArchive", "buildApp",
                            "uninstallProvisioningProfile">>
                     ELSE <<"buildPrepare", "buildArchive">>
      [] OTHER ->
            IF l.key THEN <<"createCertsFolder", "buildJson", "compile",
                            "archive">>
                     ELSE <<"compile", "archive">>

\* The tasks that call back without an error whatever happens.
neverFails(l, name) ==
    \/ name \in {"removePfx", "removeKeychain"}
    \/ name = "buildJson" /\ l.platform = "ubuntu"

\* process.send(m) and process.exit(code): the end of the child.
report(l, m, code) ==
    [l EXCEPT !.sent = Append(@, m), !.exit = code, !.pc = "exited"]

\* An exception leaves a stage. Thrown from a callback of the event loop it
\* is uncaught and ends the child with code 1; thrown below the then() of a
\* cordova promise it becomes a rejection nobody handles, and the child,
\* kept alive by its IPC channel, stays for ever. Nothing is sent either way.
thrown(l) ==
    { [l EXCEPT !.exit = "1", !.pc = "exited"], [l EXCEPT !.pc = "hung"] }

\* The callback of async.waterfall in Builder.start and the callback the
\* launcher gave to start(): the error, if any, is sent and the child exits.
startCallback(l, public) ==
    IF public = "none" THEN report(l, ipcNull, "0")
                       ELSE report(l, ipcError(public), "0")

\* builder_launcher checking its arguments: without -j it sends an error and
\* exits with -1.
LauncherArgs ==
    /\ launcher.pc = "args"
    /\ launcher' = IF launcher.json
                   THEN [launcher EXCEPT !.pc = "select"]
                   ELSE report(launcher, ipcError("undefined"), "-1")
    /\ UNCHANGED <<coreVars, syncVars, notifyVars, requests>>

\* builder_launcher choosing the Builder of the platform: none for a platform
\* it does not know.
LauncherSelect ==
    /\ launcher.pc = "select"
    /\ launcher' = IF launcher.platform \in PlatformNames
                   THEN [launcher EXCEPT !.pc = "init", !.stage = "init"]
                   ELSE report(launcher, ipcError("undefined"), "0")
    /\ UNCHANGED <<coreVars, syncVars, notifyVars, requests>>

\* The stage after init, create and prepare.
following(stage) ==
    CASE stage = "init" -> "create"
      [] stage = "create" -> "prepare"
      [] OTHER -> "build"

\* init, create or prepare of Builder.start calls back, with an error of
\* one of its tasks or without.
LauncherStage(ok) ==
    /\ launcher.pc \in {"init", "create", "prepare"}
    /\ launcher' = IF ok
                   THEN [launcher EXCEPT !.pc = following(launcher.pc),
                                         !.stage = following(launcher.pc)]
                   ELSE startCallback(launcher, "Internal compiler error")
    /\ UNCHANGED <<coreVars, syncVars, notifyVars, requests>>

\* cordovaPreparePlatforms and cordovaPreparePlugins parse config.xml outside
\* their try blocks: an exception leaves prepare.
LauncherStageThrow ==
    /\ launcher.pc = "prepare"
    /\ launcher' \in thrown(launcher)
    /\ UNCHANGED <<coreVars, syncVars, notifyVars, requests>>

\* cfg.name().length() > 40 in WindowsBuilder.build: cfg.name() is a string,
\* its length a number, and calling a number throws a TypeError whatever the
\* name is.
nameCheck(len) == "TypeError"

\* The callback of the waterfall of build(): AppleBuilder removes the
\* keychain there; then build() calls back.
buildCallback(l, public) ==
    LET m == IF l.platform \in Apple THEN [l EXCEPT !.keychain = FALSE] ELSE l
    IN  IF public = "none"
        THEN [m EXCEPT !.built = "ok", !.task = 0, !.pc = "pack",
                       !.stage = "pack"]
        ELSE startCallback([m EXCEPT !.built = "error", !.task = 0], public)

\* The head of build(): the name check of WindowsBuilder, the licences call
\* of AndroidBuilder (execSync, which throws when the command fails), and the
\* start of the tasks.
LauncherBuild(ok) ==
    /\ launcher.pc = "build"
    /\ IF launcher.platform = "windows"
       THEN CASE nameCheck(launcher.nameLen) = "TypeError" ->
                    launcher' \in thrown(launcher)
              [] nameCheck(launcher.nameLen) = "long" ->
                    launcher' = buildCallback(launcher,
                        "Windows compilations can't have names longer than 40 characters. Choose a shorter name.")
              [] OTHER ->
                    launcher' = [launcher EXCEPT !.pc = "tasks", !.task = 1]
       ELSE IF launcher.platform = "android" /\ ~ok
       THEN launcher' \in thrown(launcher)
       ELSE launcher' = [launcher EXCEPT !.pc = "tasks", !.task = 1]
    /\ UNCHANGED <<coreVars, syncVars, notifyVars, requests>>

\* What a task that succeeded leaves behind.
effect(l, name) ==
    CASE name = "addKeychain" -> [l EXCEPT !.keychain = TRUE]
      [] name = "removeKeychain" -> [l EXCEPT !.keychain = FALSE]
      [] name = "installProvisioningProfile" -> [l EXCEPT !.profile = TRUE]
      [] name = "uninstallProvisioningProfile" -> [l EXCEPT !.profile = FALSE]
      [] OTHER -> l

\* A task of build() calls back: the next one starts, or the waterfall ends,
\* at the first error or after the last task.
LauncherTask(ok) ==
    /\ launcher.pc = "tasks"
    /\ LET name == tasks(launcher)[launcher.task]
           l == [launcher EXCEPT !.ran = @ + 1]
       IN  /\ ~ok => ~neverFails(launcher, name)
           /\ launcher' =
                 IF ~ok THEN buildCallback(l, "Internal compiler error")
                 ELSE IF launcher.task = Len(tasks(launcher))
                 THEN buildCallback(effect(l, name), "none")
                 ELSE [effect(l, name) EXCEPT !.task = @ + 1]
    /\ UNCHANGED <<coreVars, syncVars, notifyVars, requests>>

\* pack() looking for the artifacts: the build directory is missing, holds
\* none of the expected files, or some. fse.readdirSync and klawSync throw on
\* a missing directory; AndroidBuilder reports an error on an empty list; a
\* signed Apple build joins the path of the package it did not find, which
\* throws; every other variant zips the empty list and calls back.
LauncherPack(found) ==
    /\ launcher.pc = "pack"
    /\ found \in {"missing", "none", "some"}
    /\ LET l == [launcher EXCEPT !.found = found]
       IN  IF found = "missing"
           THEN launcher' \in thrown(l)
           ELSE IF found = "some"
           THEN launcher' = startCallback(l, "none")
           ELSE IF launcher.platform = "android"
           THEN launcher' = startCallback(l, "Internal compiler error (code 0200)")
           ELSE IF launcher.platform \in Apple /\ launcher.key
           THEN launcher' \in thrown(l)
           ELSE launcher' = startCallback(l, "none")
    /\ UNCHANGED <<coreVars, syncVars, notifyVars, requests>>

\* One build child, from fork to its end.
LaunchInit ==
    /\ CoreInit
    /\ ready /\ workspaceDir
    /\ _options[COMPILER].service
    /\ Synced
    /\ SyncIdle
    /\ env = "production"
    /\ NotifyIdle
    /\ requests = NoRequests
    /\ launcher \in Launches
    /\ launcher.platform # "windows" => launcher.nameLen = MaxNameLength

LaunchNext ==
    \/ LauncherArgs
    \/ LauncherSelect
    \/ \E ok \in BOOLEAN : LauncherStage(ok)
    \/ LauncherStageThrow
    \/ \E ok \in BOOLEAN : LauncherBuild(ok)
    \/ \E ok \in BOOLEAN : LauncherTask(ok)
    \/ \E found \in {"missing", "none", "some"} : LauncherPack(found)

LaunchSpec == LaunchInit /\ [][LaunchNext]_vars

\* The child is over: it exited, or it will never do anything again.
ended == launcher.pc \in {"exited", "hung"}

\* C32: on every path of the build child exactly one terminal IPC message
\* has been sent when the child is over, null after a success and an error
\* otherwise; never none and never two.
C32_OneTerminalMessage ==
    /\ Len(launcher.sent) <= 1
    /\ ended => Len(launcher.sent) = 1

\* C34: when the build stage of a signed Apple build has called back, with an
\* error or without, the provisioning profile is out of the OS profile store
\* and the keychain of the job is deleted.
C34_AppleCleanup ==
    (launcher.platform \in Apple /\ launcher.key /\ launcher.built # "no")
        => (~launcher.profile /\ ~launcher.keychain)

\* C35: once a Windows job has left the head of build(), a name of at most
\* 40 characters has passed the check and the build tasks have started, and a
\* longer name has been rejected with the public error of the name check and
\* no build task has run.
C35_WindowsNameCheck ==
    (launcher.platform = "windows" /\ launcher.stage = "build"
                                   /\ launcher.pc # "build")
        => IF launcher.nameLen > MaxNameLength
           THEN /\ launcher.sent = <<ipcError("Windows compilations can't have names longer than 40 characters. Choose a shorter name.")>>
                /\ launcher.ran = 0
           ELSE launcher.pc = "tasks" \/ launcher.ran > 0

\* C36: on every platform a child whose pack stage found none of the expected
\* artifacts ends with one error that carries a public message; it does not
\* report success.
C36_NoArtifactsFails ==
    (launcher.found = "none" /\ ended)
        => /\ Len(launcher.sent) = 1
           /\ launcher.sent[1].error
           /\ launcher.sent[1].msgPublic # "none"

\* C37: a build whose child sent an error object over IPC is notified as a
\* failure, whichever of the message and the exit event of the child the
\* Builder handles first: the notification handed to the queue for it carries
\* an error.
C37_ChildErrorNotified ==
    \A i \in 1..Len(iters) :
        (iters[i].msg = "error" /\ iters[i].notif = "pending")
            => notification(iters[i]).msg_internal # msgInternal("none")

\* The Builder as a daemon on a host whose products are ready, with every
\* failure of an iteration but none of the service itself: no signal, and a
\* queue connection that is established sooner or later.
WorkInit == Init /\ ready /\ _options[COMPILER].service

WorkSteps ==
    \/ Start(COMPILER)
    \/ NetworkIPService(COMPILER)
    \/ LoopTick(COMPILER)
    \/ \E i \in 1..MaxIters, ok \in BOOLEAN : InitDone(i, ok)
    \/ \E i \in 1..MaxIters, why \in {"request", "malformed"} : FetchFail(i, why)
    \/ \E i \in 1..MaxIters : FetchThrow(i)
    \/ \E i \in 1..MaxIters, job \in Jobs, forked \in BOOLEAN : FetchJob(i, job, forked)
    \/ \E i \in 1..MaxIters, m \in {"null", "error"} : ChildSend(i, m)
    \/ \E i \in 1..MaxIters : ChildExit(i)
    \/ \E i \in 1..MaxIters : ChildCrash(i)
    \/ \E i \in 1..MaxIters : OnMessage(i)
    \/ \E i \in 1..MaxIters : OnExit(i)
    \/ \E i \in 1..MaxIters : OnError(i)
    \/ \E i \in 1..MaxIters : WatchdogFire(i)
    \/ \E i \in 1..MaxIters, stored \in BOOLEAN : NotifyDone(i, stored)
    \/ Tick
    \/ MongoConnected

WorkNext == WorkSteps /\ UNCHANGED restVars

WorkSpec == WorkInit /\ [][WorkNext]_vars

\* The callbacks of the event loop are run once they are due: the callback of
\* ensureDir, the callback of the request (which has a timeout), the handlers
\* of the events of the child, the watchdog interval, the callback of the
\* queue and the connection promise. The child itself owes nothing: it may
\* never send and never exit.
WorkFair ==
    /\ WorkSpec
    /\ \A i \in 1..MaxIters :
          /\ WF_vars((\E ok \in BOOLEAN : InitDone(i, ok)) /\ UNCHANGED restVars)
          /\ WF_vars((\/ \E why \in {"request", "malformed"} : FetchFail(i, why)
                      \/ FetchThrow(i)
                      \/ \E job \in Jobs, forked \in BOOLEAN :
                            FetchJob(i, job, forked)) /\ UNCHANGED restVars)
          /\ WF_vars(OnMessage(i) /\ UNCHANGED restVars)
          /\ WF_vars(OnExit(i) /\ UNCHANGED restVars)
          /\ WF_vars(OnError(i) /\ UNCHANGED restVars)
          /\ WF_vars(WatchdogFire(i) /\ UNCHANGED restVars)
          /\ WF_vars((\E stored \in BOOLEAN : NotifyDone(i, stored))
                        /\ UNCHANGED restVars)
    /\ WF_vars(Tick /\ UNCHANGED restVars)
    /\ WF_vars(MongoConnected /\ UNCHANGED restVars)

\* C38: a Builder that is working is idle again later: every iteration that
\* set working to true sets it to false, whatever its end.
C38_WorkingEnds ==
    _working[COMPILER] ~> (~_working[COMPILER] \/ proc[COMPILER] = "exited")

\* C39: ready.lock, once created, is never removed: no step of an iteration,
\* failed or successful with an empty listing, takes it away, so the gate of
\* the Builder stays open.
C39_ReadyStays == [][ready => ready']_vars

\* ready.lock is still there after an iteration that succeeded on an empty
\* listing and after which nothing would have written it.
C39_Witness ==
    /\ ready
    /\ uStage = "idle"
    /\ uHist.lastOk
    /\ uHist.listed = [i \in 1..NKeys |-> 0]
    /\ ~s3_structure.exists \/ s3_structure.items = << >>

\* ------------------------------------------------ the registration protocol

\* CocoonService.register: POST /api/v1/compilers, skipped in DEVELOP.
register(s) ==
    IF env = "develop" THEN requests
    ELSE [requests EXCEPT ![s] = @ \cup {"POST compilers"}]

\* CocoonService.registerService: POST /api/v1/compilers/{ip}, skipped in
\* DEVELOP.
registerService(s) ==
    IF env = "develop" THEN requests
    ELSE [requests EXCEPT ![s] = @ \cup {"POST service"}]

\* CocoonService.heartbeat: POST .../{ip}/{id}/heartbeat, skipped in DEVELOP.
heartbeat(s) ==
    IF env = "develop" THEN requests
    ELSE [requests EXCEPT ![s] = @ \cup {"POST heartbeat"}]

\* CocoonService.deregister: DELETE /api/v1/compilers/{ip}/{id}.
deregister(s) == [requests EXCEPT ![s] = @ \cup {"DELETE service"}]

\* A step in which stop() was called: deregister() runs when stop() goes
\* through to process.exit.
stopped(s) ==
    IF proc[s] # "exited" /\ proc'[s] = "exited" THEN deregister(s)
                                                  ELSE requests

\* The heartbeat interval start() arms in daemon mode fires: it calls
\* register().
HeartbeatTick(s) ==
    /\ proc[s] = "running"
    /\ _options[s].service
    /\ requests' = register(s)
    /\ UNCHANGED coreVars

\* The backend answers the registration with 2xx/3xx: registerService().
RegisterReply(s) ==
    /\ proc[s] = "running"
    /\ "POST compilers" \in requests[s]
    /\ requests' = registerService(s)
    /\ UNCHANGED coreVars

\* The backend answers the service registration with 2xx/3xx: heartbeat().
ServiceReply(s) ==
    /\ proc[s] = "running"
    /\ "POST service" \in requests[s]
    /\ requests' = heartbeat(s)
    /\ UNCHANGED coreVars

\* The services of a host in either environment, from start() to stop().
RegInit ==
    /\ CoreInit
    /\ IF ready THEN Synced ELSE Fresh([i \in 1..NKeys |-> 0])
    /\ SyncIdle
    /\ env \in Envs
    /\ NotifyIdle
    /\ launcher = NotForked
    /\ requests = NoRequests

RegSteps ==
    \/ \E s \in Services : NetworkIPService(s) /\ requests' = register(s)
    \/ \E s \in Services : NetworkIPError(s) /\ requests' = stopped(s)
    \/ \E s \in Services : Signal(s) /\ requests' = stopped(s)
    \/ \E s \in Services : StopTick(s) /\ requests' = stopped(s)
    \/ MongoFailed /\ requests' = stopped(COMPILER)
    \/ MongoClose /\ requests' = stopped(COMPILER)
    \/ /\ \/ \E s \in Services : Start(s)
          \/ NetworkIPConsole(COMPILER)
          \/ \E s \in Services : LoopTick(s)
          \/ \E ok \in BOOLEAN : UpdaterDataFolder(ok)
          \/ \E err \in BOOLEAN, n \in 0..1 : UpdaterFinish(err, n)
          \/ \E i \in 1..MaxIters, ok \in BOOLEAN : InitDone(i, ok)
          \/ \E i \in 1..MaxIters : FetchFail(i, "request")
          \/ MongoConnected
       /\ UNCHANGED requests
    \/ \E s \in Services : HeartbeatTick(s)
    \/ \E s \in Services : RegisterReply(s)
    \/ \E s \in Services : ServiceReply(s)

RegNext == RegSteps /\ UNCHANGED <<syncVars, notifyVars, launcher>>

RegSpec == RegInit /\ [][RegNext]_vars

====
